---------------------------- MODULE Spec2Model ----------------------------
(***************************************************************************)
(* Model of the Raft node of src/src/raft.rs: RaftState behind one mutex,  *)
(* the election task (run_election_timer / start_election /                *)
(* become_leader), the heartbeat task (run_heartbeat_sender), the client   *)
(* call propose_entry, the rounds of send_append_entries each of the three *)
(* runs, the RPC handler (handle_raft_message), and the durable store      *)
(* (persist_state_to_disk / load_state_from_disk / RaftNode::new).         *)
(*                                                                         *)
(* Log indices are the code's 0-based indices; At(l, i) is l[i] of the     *)
(* code.  A section of code that runs under one acquisition of the state   *)
(* mutex is one atomic step, and the awaits between two acquisitions (disk *)
(* write, RPC) are the points where other tasks interleave.  The requests  *)
(* of one round of send_append_entries are built in one step.              *)
(***************************************************************************)
EXTENDS Integers, Sequences, FiniteSets, TLC

VARIABLES
    peers,        \* RaftConfig.peers of every configured node (ordered)
    up,           \* the nodes whose process is running
    currentTerm,  \* RaftState.current_term
    votedFor,     \* RaftState.voted_for (None = 0)
    role,         \* RaftState.role
    leaderId,     \* RaftState.leader_id (None = 0)
    log,          \* RaftState.log
    commitIndex,  \* RaftState.commit_index
    nextIndex,    \* RaftState.next_index (absent key = Absent)
    matchIndex,   \* RaftState.match_index (absent key = Absent)
    mutex,        \* who holds the RaftState mutex between two steps
    disk,         \* raft_state_<id>.bin (absent file = NoFile)
    msgs,         \* RPC requests and responses in flight, handlers suspended in an await
    task,         \* where each node's election task ("elec"), heartbeat task
                  \* ("beat") and propose_entry call ("prop") stand
    committed,    \* history: what leaders committed, [term, index, entry]
    budget        \* what the environment does: the election timeouts, heartbeat
                  \* ticks and stops still to come on each node, the commands
                  \* still to be proposed on it, and the links on which
                  \* AppendEntries RPCs get through

vars == <<peers, up, currentTerm, votedFor, role, leaderId, log, commitIndex,
          nextIndex, matchIndex, mutex, disk, msgs, task, committed, budget>>

raftVars == <<currentTerm, votedFor, role, leaderId, log, commitIndex,
              nextIndex, matchIndex>>

----------------------------------------------------------------------------
\* Bounds of the model

NumServers == 3
MaxTerm == 3
MaxElections == 2
MaxStops == 2
MAX_ENTRIES_PER_RPC == 8

Server == 1..NumServers
None == 0
Absent == -1
NoFile == [file |-> "absent"]

Nodes == DOMAIN peers

Max(a, b) == IF a >= b THEN a ELSE b
Min(a, b) == IF a <= b THEN a ELSE b

----------------------------------------------------------------------------
\* RaftState

Sentinel == [term |-> 0, command |-> 0]

At(l, i) == l[i + 1]

LastLogIndex(n) == Len(log[n]) - 1

LastLogTerm(n) == IF Len(log[n]) = 0 THEN 0 ELSE log[n][Len(log[n])].term

\* state.log.get(i).map(|e| e.term).unwrap_or(0)
TermAt(l, i) == IF i >= 0 /\ i < Len(l) THEN At(l, i).term ELSE 0

NewLog == <<Sentinel>>

EmptyMap == [p \in Server |-> Absent]

\* get(key).unwrap_or(d)
GetOr(m, k, d) == IF m[k] = Absent THEN d ELSE m[k]

\* A task at rest.  term, lli, llt, commit are the locals a task keeps across
\* its awaits, votes is votes_granted, k the position in peers of the peer
\* whose RPC result it awaits, err whether its last call returned Err.
Idle == [pc |-> "idle", term |-> 0, lli |-> 0, llt |-> 0, votes |-> 0, k |-> 0,
         commit |-> 0, err |-> FALSE]

\* A client connection not yet accepted: where its handler stands, the
\* reply it wrote, whether it read the request and ran the work function
NoClient == [pc |-> "idle", reply |-> <<>>, read |-> FALSE, worked |-> FALSE]

IdleTasks == [elec |-> Idle, beat |-> Idle, prop |-> Idle, cli |-> NoClient]

Tasks == {"elec", "beat", "prop"}

\* The list of the other servers, in the order of the configuration
RECURSIVE SeqOf(_, _)
SeqOf(S, from) ==
    IF from > NumServers THEN <<>>
    ELSE IF from \in S THEN <<from>> \o SeqOf(S, from + 1)
    ELSE SeqOf(S, from + 1)

PeerList(n) == SeqOf(Server \ {n}, 1)

PeerSet(n) == {peers[n][i] : i \in 1..Len(peers[n])}

\* A majority that counts the node itself twice
MajorityWithSelfTwice(n) == ((Len(peers[n]) + 2) \div 2) + 1

\* (peers.len() + 1) / 2 + 1
Majority(n) == ((Len(peers[n]) + 1) \div 2) + 1

----------------------------------------------------------------------------
\* Durable store

\* A store that leaves the vote out
PersistentStateWithoutVote(n) ==
    [file |-> "present", current_term |-> currentTerm[n],
     voted_for |-> None, log |-> log[n]]

\* persist_state_to_disk: the tuple written is read under the mutex at the
\* time of the write
PersistentState(n) ==
    [file |-> "present", current_term |-> currentTerm[n],
     voted_for |-> votedFor[n], log |-> log[n]]

Persist(n) == disk' = [disk EXCEPT ![n] = PersistentState(n)]

\* A task can take the mutex
CanLock(n) == n \in up /\ mutex[n] = "free"

----------------------------------------------------------------------------
\* Messages

\* RequestVote sent by start_election from its snapshot
RequestVoteMsg(n, p) ==
    [type |-> "RV", from |-> n, to |-> p, term |-> task[n].elec.term,
     lli |-> task[n].elec.lli, llt |-> task[n].elec.llt]

\* send_append_entries, lines 331-365, one peer: prev index/term and entries
\* are read under the mutex, term and leader_commit are the caller's
\* snapshot.  t is the task whose round the request belongs to.
AppendEntriesMsg(n, p, t, term, commit) ==
    LET last_index == LastLogIndex(n)
        next_index == GetOr(nextIndex[n], p, last_index + 1)
        prev_index == IF next_index > 0 THEN next_index - 1 ELSE 0
        prev_term  == TermAt(log[n], prev_index)
        entries    == IF next_index <= last_index
                      THEN SubSeq(log[n], next_index + 1, last_index + 1)
                      ELSE <<>>
        chunk      == IF Len(entries) > MAX_ENTRIES_PER_RPC
                      THEN SubSeq(entries, 1, MAX_ENTRIES_PER_RPC)
                      ELSE entries
    IN [type |-> "AE", task |-> t, from |-> n, to |-> p, term |-> term,
        prev_log_index |-> prev_index, prev_log_term |-> prev_term,
        entries |-> chunk, leader_commit |-> commit]

\* The peers an AppendEntries RPC of n reaches: a connection to a process
\* that is not running is refused, one over a link that is not in
\* budget.links never gets through
Reaches(n) == {p \in PeerSet(n) \cap up : <<n, p>> \in budget.links}

\* send_append_entries, lines 331-397: the requests of a round are spawned,
\* then the caller awaits the result of the first peer's RPC
BeginRound(n, t, term, commit) ==
    /\ msgs' = msgs \cup {AppendEntriesMsg(n, p, t, term, commit) : p \in Reaches(n)}
    /\ task' = [task EXCEPT ![n][t] =
            IF peers[n] = <<>> THEN Idle
            ELSE [Idle EXCEPT !.pc = "round", !.term = term, !.k = 1]]

\* The peer whose result the round of task t awaits (lines 400-401)
Awaited(n, t) == peers[n][task[n][t].k]

\* The round goes on to the next handle, or send_append_entries returns
AfterResult(n, t) ==
    IF task[n][t].k < Len(peers[n]) THEN [task[n][t] EXCEPT !.k = @ + 1] ELSE Idle

\* The requests and responses of the round of n's task t
OfRound(m, n, t) ==
    \/ m.type = "AE" /\ m.task = t /\ m.from = n
    \/ m.type = "AER" /\ m.task = t /\ m.to = n

\* The connections a node's election task holds are closed: its requests and
\* the responses to them are lost; a handler suspended in its disk write for
\* one of them finishes, and its reply goes nowhere
CloseVoteRpc(n, ms) ==
    {m \in ms : ~(m.type = "RV" /\ m.from = n)
                 /\ ~(m.type \in {"RVR", "RVG", "RVW"} /\ m.to = n)}
    \cup {[m EXCEPT !.to = None] : m \in {x \in ms : x.type \in {"RVG", "RVW"} /\ x.to = n}}

----------------------------------------------------------------------------
\* Election task: run_election_timer, start_election, become_leader

\* become_leader_internal
BecomeLeaderInternal(n) ==
    LET last_index == LastLogIndex(n) IN
    /\ role' = [role EXCEPT ![n] = "Leader"]
    /\ leaderId' = [leaderId EXCEPT ![n] = n]
    /\ nextIndex' = [nextIndex EXCEPT ![n] =
            [p \in Server |-> IF p \in PeerSet(n) THEN last_index + 1 ELSE @[p]]]
    /\ matchIndex' = [matchIndex EXCEPT ![n] =
            [p \in Server |-> IF p \in PeerSet(n) THEN 0
                              ELSE IF p = n THEN last_index ELSE @[p]]]

\* An election timer that starts an election whatever the role
StartElectionInAnyRole(n) ==
    /\ CanLock(n)
    /\ task[n].elec.pc = "idle"
    /\ currentTerm[n] < MaxTerm
    /\ budget.timeouts[n] > 0
    /\ budget' = [budget EXCEPT !.timeouts[n] = @ - 1]
    /\ role' = [role EXCEPT ![n] = "Candidate"]
    /\ currentTerm' = [currentTerm EXCEPT ![n] = @ + 1]
    /\ votedFor' = [votedFor EXCEPT ![n] = n]
    /\ task' = [task EXCEPT ![n].elec =
            [Idle EXCEPT !.pc = "persist", !.term = currentTerm[n] + 1,
                         !.lli = LastLogIndex(n), !.llt = LastLogTerm(n), !.votes = 1]]
    /\ UNCHANGED <<peers, up, leaderId, log, commitIndex, nextIndex, matchIndex,
                   mutex, disk, msgs, committed>>

\* run_election_timer found the node a Follower (lines 176-188), then
\* start_election, lines 195-209
StartElection(n) ==
    /\ CanLock(n)
    /\ task[n].elec.pc = "idle"
    /\ role[n] = "Follower"
    /\ currentTerm[n] < MaxTerm
    /\ budget.timeouts[n] > 0
    /\ budget' = [budget EXCEPT !.timeouts[n] = @ - 1]
    /\ role' = [role EXCEPT ![n] = "Candidate"]
    /\ currentTerm' = [currentTerm EXCEPT ![n] = @ + 1]
    /\ votedFor' = [votedFor EXCEPT ![n] = n]
    /\ task' = [task EXCEPT ![n].elec =
            [Idle EXCEPT !.pc = "persist", !.term = currentTerm[n] + 1,
                         !.lli = LastLogIndex(n), !.llt = LastLogTerm(n), !.votes = 1]]
    /\ UNCHANGED <<peers, up, leaderId, log, commitIndex, nextIndex, matchIndex,
                   mutex, disk, msgs, committed>>

\* The vote loop goes on with the next peer, or ends: lines 221-269.
\* `ms` is the network after the step that led here, `votes` the tally.
ElectionAdvance(n, ms, votes) ==
    IF task[n].elec.k < Len(peers[n])
    THEN /\ msgs' = ms \cup (IF peers[n][task[n].elec.k + 1] \in up
                            THEN {RequestVoteMsg(n, peers[n][task[n].elec.k + 1])} ELSE {})
         /\ task' = [task EXCEPT ![n].elec.pc = "wait", ![n].elec.votes = votes,
                                 ![n].elec.k = @ + 1]
         /\ UNCHANGED <<role, leaderId, nextIndex, matchIndex>>
    ELSE /\ msgs' = ms
         /\ CanLock(n)
         /\ IF votes >= Majority(n)
            THEN /\ BecomeLeaderInternal(n)
                 /\ task' = [task EXCEPT ![n].elec =
                         [Idle EXCEPT !.pc = "lpersist", !.term = currentTerm[n],
                                      !.commit = commitIndex[n]]]
            ELSE /\ role' = [role EXCEPT ![n] = IF @ = "Candidate" THEN "Follower" ELSE @]
                 /\ task' = [task EXCEPT ![n].elec = Idle]
                 /\ UNCHANGED <<leaderId, nextIndex, matchIndex>>

\* start_election, line 213, then the first pass of the loop
ElectionPersist(n) ==
    /\ CanLock(n)
    /\ task[n].elec.pc = "persist"
    /\ Persist(n)
    /\ ElectionAdvance(n, msgs, task[n].elec.votes)
    /\ UNCHANGED <<peers, up, currentTerm, votedFor, log, commitIndex, mutex,
                   committed, budget>>

\* start_election, lines 229-252: the response of the peer being asked
HandleVoteResponse(n, m) ==
    /\ n \in up
    /\ task[n].elec.pc = "wait"
    /\ m.type = "RVR" /\ m.to = n /\ m.from = peers[n][task[n].elec.k]
    /\ IF m.term > task[n].elec.term
       THEN /\ CanLock(n)
            /\ currentTerm' = [currentTerm EXCEPT ![n] = m.term]
            /\ role' = [role EXCEPT ![n] = "Follower"]
            /\ votedFor' = [votedFor EXCEPT ![n] = None]
            /\ task' = [task EXCEPT ![n].elec = Idle]
            /\ msgs' = msgs \ {m}
            /\ UNCHANGED <<leaderId, nextIndex, matchIndex>>
       ELSE IF m.granted /\ task[n].elec.votes + 1 >= Majority(n)
       THEN /\ CanLock(n)
            /\ BecomeLeaderInternal(n)
            /\ task' = [task EXCEPT ![n].elec =
                    [Idle EXCEPT !.pc = "lpersist", !.term = currentTerm[n],
                                 !.commit = commitIndex[n]]]
            /\ msgs' = msgs \ {m}
            /\ UNCHANGED <<currentTerm, votedFor>>
       ELSE /\ ElectionAdvance(n, msgs \ {m},
                               IF m.granted THEN task[n].elec.votes + 1
                               ELSE task[n].elec.votes)
            /\ UNCHANGED <<currentTerm, votedFor>>
    /\ UNCHANGED <<peers, up, log, commitIndex, mutex, disk, committed, budget>>

\* The RPC a candidate waits for is still under way: the request, the
\* handler suspended in its disk write, or the response
VoteRpcUnderWay(n) ==
    \E m \in msgs : (m.type = "RV" /\ m.from = n)
                     \/ (m.type \in {"RVG", "RVW", "RVR"} /\ m.to = n)

\* start_election, lines 253-254: send_raft_message returned an error (the
\* peer's process is not running, or stopped before it replied)
ElectionRpcFail(n) ==
    /\ n \in up
    /\ task[n].elec.pc = "wait"
    /\ ~VoteRpcUnderWay(n)
    /\ ElectionAdvance(n, CloseVoteRpc(n, msgs), task[n].elec.votes)
    /\ UNCHANGED <<peers, up, currentTerm, votedFor, log, commitIndex, mutex,
                   disk, committed, budget>>

\* become_leader, lines 303-306: persist, then the round of send_append_entries
ElectionLeaderSend(n) ==
    /\ CanLock(n)
    /\ task[n].elec.pc = "lpersist"
    /\ Persist(n)
    /\ BeginRound(n, "elec", task[n].elec.term, task[n].elec.commit)
    /\ UNCHANGED <<peers, up, raftVars, mutex, committed, budget>>

----------------------------------------------------------------------------
\* propose_entry and the heartbeat sender

\* A propose_entry that sets next_index of every peer past the new entry
ProposeEntryResettingNext(n) ==
    /\ CanLock(n)
    /\ task[n].prop.pc = "idle"
    /\ role[n] = "Leader"
    /\ budget.proposals[n] # <<>>
    /\ budget' = [budget EXCEPT !.proposals[n] = Tail(@)]
    /\ log' = [log EXCEPT ![n] =
            Append(@, [term |-> currentTerm[n], command |-> Head(budget.proposals[n])])]
    /\ matchIndex' = [matchIndex EXCEPT ![n][n] = LastLogIndex(n) + 1]
    /\ nextIndex' = [nextIndex EXCEPT ![n] =
            [p \in Server |-> IF p \in PeerSet(n)
                              THEN LastLogIndex(n) + 2 ELSE @[p]]]
    /\ task' = [task EXCEPT ![n].prop =
            [Idle EXCEPT !.pc = "persist", !.term = currentTerm[n],
                         !.commit = commitIndex[n]]]
    /\ UNCHANGED <<peers, up, currentTerm, votedFor, role, leaderId, commitIndex,
                   mutex, disk, msgs, committed>>

\* propose_entry, lines 736-755
ProposeEntry(n) ==
    /\ CanLock(n)
    /\ task[n].prop.pc = "idle"
    /\ role[n] = "Leader"
    /\ budget.proposals[n] # <<>>
    /\ budget' = [budget EXCEPT !.proposals[n] = Tail(@)]
    /\ log' = [log EXCEPT ![n] =
            Append(@, [term |-> currentTerm[n], command |-> Head(budget.proposals[n])])]
    /\ matchIndex' = [matchIndex EXCEPT ![n][n] = LastLogIndex(n) + 1]
    /\ nextIndex' = [nextIndex EXCEPT ![n] =
            [p \in Server |-> IF p \in PeerSet(n) /\ @[p] = Absent
                              THEN LastLogIndex(n) + 2 ELSE @[p]]]
    /\ task' = [task EXCEPT ![n].prop =
            [Idle EXCEPT !.pc = "persist", !.term = currentTerm[n],
                         !.commit = commitIndex[n]]]
    /\ UNCHANGED <<peers, up, currentTerm, votedFor, role, leaderId, commitIndex,
                   mutex, disk, msgs, committed>>

\* A propose_entry that appends before it looks at the role
ProposeRefusedAfterAppend(n) ==
    /\ CanLock(n)
    /\ task[n].prop.pc = "idle"
    /\ role[n] # "Leader"
    /\ budget.proposals[n] # <<>>
    /\ budget' = [budget EXCEPT !.proposals[n] = Tail(@)]
    /\ log' = [log EXCEPT ![n] =
            Append(@, [term |-> currentTerm[n], command |-> Head(budget.proposals[n])])]
    /\ task' = [task EXCEPT ![n].prop = [Idle EXCEPT !.err = TRUE]]
    /\ UNCHANGED <<peers, up, currentTerm, votedFor, role, leaderId, commitIndex,
                   nextIndex, matchIndex, mutex, disk, msgs, committed>>

\* propose_entry, lines 736-741: the node is not Leader, the call returns Err
ProposeRefused(n) ==
    /\ CanLock(n)
    /\ task[n].prop.pc = "idle"
    /\ role[n] # "Leader"
    /\ budget.proposals[n] # <<>>
    /\ budget' = [budget EXCEPT !.proposals[n] = Tail(@)]
    /\ task' = [task EXCEPT ![n].prop = [Idle EXCEPT !.err = TRUE]]
    /\ UNCHANGED <<peers, up, raftVars, mutex, disk, msgs, committed>>

\* propose_entry, lines 761-766
ProposeSend(n) ==
    /\ CanLock(n)
    /\ task[n].prop.pc = "persist"
    /\ Persist(n)
    /\ BeginRound(n, "prop", task[n].prop.term, task[n].prop.commit)
    /\ UNCHANGED <<peers, up, raftVars, mutex, committed, budget>>

\* run_heartbeat_sender, lines 496-507: a tick that finds the node Leader
Heartbeat(n) ==
    /\ CanLock(n)
    /\ task[n].beat.pc = "idle"
    /\ role[n] = "Leader"
    /\ budget.beats[n] > 0
    /\ budget' = [budget EXCEPT !.beats[n] = @ - 1]
    /\ BeginRound(n, "beat", currentTerm[n], commitIndex[n])
    /\ UNCHANGED <<peers, up, raftVars, mutex, disk, committed>>

----------------------------------------------------------------------------
\* The client endpoint: handle_client (bin/server.rs) and handle_client_simple
\* (bin/server_No_load_Balancing.rs)

\* A redirect that never names the leader
RedirectWithoutId(leader_id) == <<"NO_LEADER">>

\* The redirect string: format!("NOT_LEADER:{}", id), or "NO_LEADER"
Redirect(leader_id) ==
    IF leader_id # None THEN <<"NOT_LEADER:", leader_id>> ELSE <<"NO_LEADER">>

\* A connection is accepted and is_leader() is called on the node
ClientCheck(n) ==
    /\ CanLock(n)
    /\ task[n].cli.pc = "idle"
    /\ task' = [task EXCEPT ![n].cli.pc =
            IF role[n] = "Leader" THEN "work" ELSE "redirect"]
    /\ UNCHANGED <<peers, up, raftVars, mutex, disk, msgs, committed, budget>>

\* Not the leader: get_leader_id(), then the redirect is written and the
\* handler returns
ClientRedirect(n) ==
    /\ CanLock(n)
    /\ task[n].cli.pc = "redirect"
    /\ task' = [task EXCEPT ![n].cli =
            [@ EXCEPT !.pc = "done", !.reply = Redirect(leaderId[n])]]
    /\ UNCHANGED <<peers, up, raftVars, mutex, disk, msgs, committed, budget>>

\* The leader reads the request, runs the work function and writes its
\* output, or an error ends the handler without a reply
ClientWork(n) ==
    /\ n \in up
    /\ task[n].cli.pc = "work"
    /\ \E ok \in BOOLEAN :
          task' = [task EXCEPT ![n].cli =
              [pc |-> "done", read |-> TRUE, worked |-> ok,
               reply |-> IF ok THEN <<"RESULT">> ELSE <<>>]]
    /\ UNCHANGED <<peers, up, raftVars, mutex, disk, msgs, committed, budget>>

----------------------------------------------------------------------------
\* send_append_entries: the results of a round, in the order of the peers

\* A leader that computes the new match index and does not store it
MatchIndexNotStored(n, m) == matchIndex[n][m.from]

\* lines 424-432
NewMatchIndex(n, m) ==
    LET inferred_match == m.prev_idx + m.entries_len
        new_match == Max(inferred_match, m.last_log_index)
        cur_match == GetOr(matchIndex[n], m.from, 0)
    IN IF new_match > cur_match THEN new_match ELSE matchIndex[n][m.from]

\* lines 435-442
NewNextIndex(n, m) ==
    LET new_match == Max(m.prev_idx + m.entries_len, m.last_log_index)
        desired_next == new_match + 1
        cur_next == GetOr(nextIndex[n], m.from, 1)
    IN IF desired_next > cur_next THEN desired_next ELSE nextIndex[n][m.from]

\* lines 468-476
BackedOffNextIndex(n, m) ==
    LET suggested == m.last_log_index + 1
        cur_next == GetOr(nextIndex[n], m.from, 1)
    IN IF suggested < cur_next
       THEN (IF suggested = 0 THEN 1 ELSE suggested)
       ELSE nextIndex[n][m.from]

\* lines 449-450: match_index after the update, with the leader's own entry
MatchAfter(n, m) ==
    [p \in Server |->
        IF p = m.from THEN NewMatchIndex(n, m)
        ELSE IF p = n /\ matchIndex[n][n] = Absent THEN LastLogIndex(n)
        ELSE matchIndex[n][p]]

\* A commit loop that counts replicas only
CommitStepsOfAnyTerm(n, m) ==
    LET mi == MatchAfter(n, m) IN
    {N \in (commitIndex[n] + 1)..LastLogIndex(n) :
        Cardinality({p \in Server : mi[p] # Absent /\ mi[p] >= N}) >= Majority(n)}

\* lines 452-463: the indices the loop sets commit_index to
CommitSteps(n, m) ==
    LET mi == MatchAfter(n, m) IN
    {N \in (commitIndex[n] + 1)..LastLogIndex(n) :
        /\ Cardinality({p \in Server : mi[p] # Absent /\ mi[p] >= N}) >= Majority(n)
        /\ TermAt(log[n], N) = currentTerm[n]}

SetMax(S) == CHOOSE x \in S : \A y \in S : y <= x

\* lines 400-478: the AppendEntriesResponse of the awaited peer.  A response
\* of a higher term ends the round: the results of the later peers are never
\* looked at.
HandleAppendResponse(n, t, m) ==
    /\ CanLock(n)
    /\ task[n][t].pc = "round"
    /\ m.type = "AER" /\ m.task = t /\ m.to = n /\ m.from = Awaited(n, t)
    /\ IF m.term > task[n][t].term
       THEN /\ currentTerm' = [currentTerm EXCEPT ![n] = m.term]
            /\ role' = [role EXCEPT ![n] = "Follower"]
            /\ votedFor' = [votedFor EXCEPT ![n] = None]
            /\ leaderId' = [leaderId EXCEPT ![n] = None]
            /\ task' = [task EXCEPT ![n][t] = Idle]
            /\ msgs' = {x \in msgs : ~OfRound(x, n, t)}
            /\ UNCHANGED <<nextIndex, matchIndex, commitIndex, committed>>
       ELSE /\ task' = [task EXCEPT ![n][t] = AfterResult(n, t)]
            /\ msgs' = msgs \ {m}
            /\ IF m.success
               THEN /\ matchIndex' = [matchIndex EXCEPT ![n] = MatchAfter(n, m)]
                    /\ nextIndex' = [nextIndex EXCEPT ![n][m.from] = NewNextIndex(n, m)]
                    /\ commitIndex' = [commitIndex EXCEPT ![n] =
                            IF CommitSteps(n, m) = {} THEN @ ELSE SetMax(CommitSteps(n, m))]
                    /\ committed' = committed \cup
                            (IF role[n] = "Leader"
                             THEN {[term |-> currentTerm[n], index |-> N,
                                    entry |-> At(log[n], N)] : N \in CommitSteps(n, m)}
                             ELSE {})
                    /\ UNCHANGED <<currentTerm, role, votedFor, leaderId>>
               ELSE /\ nextIndex' = [nextIndex EXCEPT ![n][m.from] =
                            BackedOffNextIndex(n, m)]
                    /\ UNCHANGED <<currentTerm, role, votedFor, leaderId, matchIndex,
                                   commitIndex, committed>>
    /\ UNCHANGED <<peers, up, log, mutex, disk, budget>>

\* lines 387-389 and 481-484: the awaited RPC ended in an error or in its
\* timeout.  The network delivers within the timeout: an RPC times out only
\* when its connection was refused or closed, or the peer's handler cannot
\* take the mutex
AppendRpcFails(n, t) ==
    LET p == Awaited(n, t) IN
    /\ n \in up
    /\ task[n][t].pc = "round"
    /\ \A m \in msgs :
          /\ ~(m.type = "AER" /\ m.task = t /\ m.to = n /\ m.from = p)
          /\ (m.type = "AE" /\ m.task = t /\ m.from = n /\ m.to = p) => mutex[p] # "free"
    /\ msgs' = {m \in msgs : ~(m.type = "AE" /\ m.task = t /\ m.from = n /\ m.to = p)}
    /\ task' = [task EXCEPT ![n][t] = AfterResult(n, t)]
    /\ UNCHANGED <<peers, up, raftVars, mutex, disk, committed, budget>>

----------------------------------------------------------------------------
\* handle_raft_message

\* A term rule that only a Follower applies
AdoptsTermAsFollower(n, m) == m.term > currentTerm[n] /\ role[n] = "Follower"

\* lines 516-529: a request of a higher term
AdoptsTerm(n, m) == m.term > currentTerm[n]

\* lines 548-550
LogIsUpToDate(n, m) ==
    \/ m.llt > LastLogTerm(n)
    \/ m.llt = LastLogTerm(n) /\ m.lli >= LastLogIndex(n)

\* A receiver that grants whatever vote it has given
GrantsVoteTwice(n, m) ==
    /\ m.term >= currentTerm[n]
    /\ LogIsUpToDate(n, m)

\* lines 538-567, evaluated after the term rule
GrantsVote(n, m) ==
    LET voted == IF AdoptsTerm(n, m) THEN None ELSE votedFor[n] IN
    /\ m.term >= currentTerm[n]
    /\ voted = None \/ voted = m.from
    /\ LogIsUpToDate(n, m)

\* RequestVote: lines 516-574.  A grant releases the mutex and suspends in
\* the disk write (RVG, then RVW); a denial replies at once.
HandleRequestVote(n, m) ==
    /\ CanLock(n)
    /\ m.type = "RV" /\ m.to = n
    /\ currentTerm' = [currentTerm EXCEPT ![n] = IF AdoptsTerm(n, m) THEN m.term ELSE @]
    /\ role' = [role EXCEPT ![n] = IF AdoptsTerm(n, m) THEN "Follower" ELSE @]
    /\ leaderId' = [leaderId EXCEPT ![n] = IF AdoptsTerm(n, m) THEN None ELSE @]
    /\ IF GrantsVote(n, m)
       THEN /\ votedFor' = [votedFor EXCEPT ![n] = m.from]
            /\ msgs' = (msgs \ {m}) \cup {[type |-> "RVG", from |-> n, to |-> m.from]}
       ELSE /\ votedFor' = [votedFor EXCEPT ![n] = IF AdoptsTerm(n, m) THEN None ELSE @]
            /\ msgs' = (msgs \ {m}) \cup
                   {[type |-> "RVR", from |-> n, to |-> m.from,
                     term |-> currentTerm'[n], granted |-> FALSE]}
    /\ UNCHANGED <<peers, up, log, commitIndex, nextIndex, matchIndex, mutex, disk,
                   task, committed, budget>>

\* lines 560-561: the disk write of a grant, under the mutex that
\* persist_state_to_disk takes; the handler then waits for the mutex again
PersistGrant(n, g) ==
    /\ CanLock(n)
    /\ g.type = "RVG" /\ g.from = n
    /\ Persist(n)
    /\ msgs' = (msgs \ {g}) \cup {[g EXCEPT !.type = "RVW"]}
    /\ UNCHANGED <<peers, up, raftVars, mutex, task, committed, budget>>

\* lines 562-573: the mutex taken again, the reply carries the term the node
\* has by then
ReplyGrant(n, g) ==
    /\ CanLock(n)
    /\ g.type = "RVW" /\ g.from = n
    /\ msgs' = (msgs \ {g}) \cup
           (IF g.to = None THEN {}
            ELSE {[type |-> "RVR", from |-> n, to |-> g.to,
                   term |-> currentTerm[n], granted |-> TRUE]})
    /\ UNCHANGED <<peers, up, raftVars, mutex, disk, task, committed, budget>>

\* A merge whose conflict truncation cuts one index lower than insert_idx
RECURSIVE MergeTruncatingBelow(_, _, _)
MergeTruncatingBelow(l, insert_idx, entries) ==
    IF entries = <<>> THEN l
    ELSE IF insert_idx < Len(l)
         THEN IF At(l, insert_idx).term # Head(entries).term
              THEN MergeTruncatingBelow(
                       Append(SubSeq(l, 1, insert_idx - 1), Head(entries)),
                       insert_idx + 1, Tail(entries))
              ELSE MergeTruncatingBelow(l, insert_idx + 1, Tail(entries))
         ELSE MergeTruncatingBelow(Append(l, Head(entries)),
                                   insert_idx + 1, Tail(entries))

\* lines 615-641: the follower's merge of the entries after prev_log_index
RECURSIVE Merge(_, _, _)
Merge(l, insert_idx, entries) ==
    IF entries = <<>> THEN l
    ELSE IF insert_idx < Len(l)
         THEN IF At(l, insert_idx).term # Head(entries).term
              THEN Merge(Append(SubSeq(l, 1, insert_idx), Head(entries)),
                         insert_idx + 1, Tail(entries))
              ELSE Merge(l, insert_idx + 1, Tail(entries))
         ELSE Merge(Append(l, Head(entries)), insert_idx + 1, Tail(entries))

\* A log match check that looks at the index only
PrevLogExistsAtIndex(n, m) == m.prev_log_index < Len(log[n])

\* lines 601-602
PrevLogExists(n, m) ==
    /\ m.prev_log_index < Len(log[n])
    /\ TermAt(log[n], m.prev_log_index) = m.prev_log_term

\* A handler without the term check
AcceptsAnyTerm(n, m) == PrevLogExists(n, m)

\* lines 592, 605: the request passes the term check and the log match check
Accepts(n, m) == m.term >= currentTerm[n] /\ PrevLogExists(n, m)

\* A follower that takes the capped leader commit index whatever its own is
FollowerCommitUnguarded(n, m) ==
    Min(m.leader_commit, m.prev_log_index + Len(m.entries))

\* lines 647-652
FollowerCommit(n, m) ==
    LET last_new_index == m.prev_log_index + Len(m.entries) IN
    IF m.leader_commit > commitIndex[n]
    THEN Min(m.leader_commit, last_new_index)
    ELSE commitIndex[n]

\* lines 617, 664-671: log_changed; the handler then calls
\* persist_state_to_disk while it still holds the guard of line 513
PersistsUnderGuard(n, m) == Accepts(n, m) /\ m.entries # <<>>

\* A handler that becomes Follower only on a request of a higher term
HandleAppendEntriesKeepingRole(n, m) ==
    /\ CanLock(n)
    /\ m.type = "AE" /\ m.to = n
    /\ currentTerm' = [currentTerm EXCEPT ![n] = IF AdoptsTerm(n, m) THEN m.term ELSE @]
    /\ votedFor' = [votedFor EXCEPT ![n] = IF AdoptsTerm(n, m) THEN None ELSE @]
    /\ role' = [role EXCEPT ![n] = IF AdoptsTerm(n, m) THEN "Follower" ELSE @]
    /\ leaderId' = [leaderId EXCEPT ![n] =
            IF m.term >= currentTerm[n] THEN m.from
            ELSE @]
    /\ log' = [log EXCEPT ![n] =
            IF Accepts(n, m) THEN Merge(@, m.prev_log_index + 1, m.entries) ELSE @]
    /\ commitIndex' = [commitIndex EXCEPT ![n] =
            IF Accepts(n, m) THEN FollowerCommit(n, m) ELSE @]
    /\ IF PersistsUnderGuard(n, m)
       THEN /\ mutex' = [mutex EXCEPT ![n] = "handler"]
            /\ msgs' = msgs \ {m}
       ELSE /\ mutex' = mutex
            /\ msgs' = (msgs \ {m}) \cup
                   {[type |-> "AER", task |-> m.task, from |-> n, to |-> m.from,
                     term |-> currentTerm'[n], success |-> Accepts(n, m),
                     last_log_index |-> Len(log'[n]) - 1,
                     prev_idx |-> m.prev_log_index,
                     entries_len |-> Len(m.entries)]}
    /\ UNCHANGED <<peers, up, nextIndex, matchIndex, disk, task, committed, budget>>

\* AppendEntries: lines 516-529 and 577-674.  The handler that persists under
\* its own guard waits for the mutex it holds: it keeps it and never replies.
HandleAppendEntries(n, m) ==
    /\ CanLock(n)
    /\ m.type = "AE" /\ m.to = n
    /\ currentTerm' = [currentTerm EXCEPT ![n] = IF AdoptsTerm(n, m) THEN m.term ELSE @]
    /\ votedFor' = [votedFor EXCEPT ![n] = IF AdoptsTerm(n, m) THEN None ELSE @]
    /\ role' = [role EXCEPT ![n] = IF m.term >= currentTerm[n] THEN "Follower" ELSE @]
    /\ leaderId' = [leaderId EXCEPT ![n] =
            IF m.term >= currentTerm[n] THEN m.from
            ELSE @]
    /\ log' = [log EXCEPT ![n] =
            IF Accepts(n, m) THEN Merge(@, m.prev_log_index + 1, m.entries) ELSE @]
    /\ commitIndex' = [commitIndex EXCEPT ![n] =
            IF Accepts(n, m) THEN FollowerCommit(n, m) ELSE @]
    /\ IF PersistsUnderGuard(n, m)
       THEN /\ mutex' = [mutex EXCEPT ![n] = "handler"]
            /\ msgs' = msgs \ {m}
       ELSE /\ mutex' = mutex
            /\ msgs' = (msgs \ {m}) \cup
                   {[type |-> "AER", task |-> m.task, from |-> n, to |-> m.from,
                     term |-> currentTerm'[n], success |-> Accepts(n, m),
                     last_log_index |-> Len(log'[n]) - 1,
                     prev_idx |-> m.prev_log_index,
                     entries_len |-> Len(m.entries)]}
    /\ UNCHANGED <<peers, up, nextIndex, matchIndex, disk, task, committed, budget>>

----------------------------------------------------------------------------
\* Process stop and RaftNode::new

\* The process ends: its connections are closed and its tasks, a handler
\* suspended in its disk write included, run no further (every step of a
\* task needs the node in `up`); the state file stays
Stop(n) ==
    /\ n \in up
    /\ budget.stops[n] > 0
    /\ budget' = [budget EXCEPT !.stops[n] = @ - 1]
    /\ up' = up \ {n}
    /\ msgs' = {m \in CloseVoteRpc(n, msgs) : m.from # n /\ m.to # n}
               \cup {[g EXCEPT !.to = None] :
                         g \in {x \in msgs : x.type \in {"RVG", "RVW"} /\ x.from = n}}
    /\ UNCHANGED <<peers, raftVars, mutex, disk, task, committed>>

\* load_state_from_disk, lines 132-150
LoadStateFromDisk(n) == disk[n]

\* RaftNode::new, lines 78-103
Recreate(n) ==
    LET ps == LoadStateFromDisk(n) IN
    /\ n \in Nodes \ up
    /\ up' = up \cup {n}
    /\ currentTerm' = [currentTerm EXCEPT ![n] =
            IF ps.file = "present" THEN ps.current_term ELSE 0]
    /\ votedFor' = [votedFor EXCEPT ![n] =
            IF ps.file = "present" THEN ps.voted_for ELSE None]
    /\ log' = [log EXCEPT ![n] = IF ps.file = "present" THEN ps.log ELSE NewLog]
    /\ commitIndex' = [commitIndex EXCEPT ![n] =
            IF ps.file = "present" THEN Len(ps.log) - 1 ELSE 0]
    /\ role' = [role EXCEPT ![n] = "Follower"]
    /\ leaderId' = [leaderId EXCEPT ![n] = None]
    /\ nextIndex' = [nextIndex EXCEPT ![n] = EmptyMap]
    /\ matchIndex' = [matchIndex EXCEPT ![n] = EmptyMap]
    /\ mutex' = [mutex EXCEPT ![n] = "free"]
    /\ task' = [task EXCEPT ![n] = IdleTasks]
    /\ msgs' = {m \in msgs : m.from # n}
    /\ UNCHANGED <<peers, disk, committed, budget>>

----------------------------------------------------------------------------
\* Specifications

\* RaftState::new for every configured node, no state file (the tests remove it)
InitWith(ps, b) ==
    /\ peers = ps
    /\ up = DOMAIN ps
    /\ currentTerm = [n \in Server |-> 0]
    /\ votedFor = [n \in Server |-> None]
    /\ role = [n \in Server |-> "Follower"]
    /\ leaderId = [n \in Server |-> None]
    /\ log = [n \in Server |-> NewLog]
    /\ commitIndex = [n \in Server |-> 0]
    /\ nextIndex = [n \in Server |-> EmptyMap]
    /\ matchIndex = [n \in Server |-> EmptyMap]
    /\ mutex = [n \in Server |-> "free"]
    /\ disk = [n \in Server |-> NoFile]
    /\ msgs = {}
    /\ task = [n \in Server |-> IdleTasks]
    /\ committed = {}
    /\ budget = b

\* Three nodes, each with the two others as peers (tests/replication.rs)
Cluster == [n \in Server |-> PeerList(n)]

AllLinks == Server \X Server

NoBeats == [n \in Server |-> 0]

NoStops == [n \in Server |-> 0]

NoProposals == [n \in Server |-> <<>>]

\* Elections: every node's election timer fires once; AppendEntries RPCs get
\* through on every link but the one from node 2 to node 3
Init ==
    InitWith(Cluster, [timeouts |-> <<1, 1, 1>>, beats |-> NoBeats,
                       proposals |-> NoProposals, stops |-> NoStops,
                       links |-> AllLinks \ {<<2, 3>>}])

Next ==
    \/ \E n \in Nodes : StartElection(n)
    \/ \E n \in Nodes : ElectionPersist(n)
    \/ \E n \in Nodes : \E m \in msgs : HandleVoteResponse(n, m)
    \/ \E n \in Nodes : ElectionLeaderSend(n)
    \/ \E n \in Nodes : \E m \in msgs : HandleRequestVote(n, m)
    \/ \E n \in Nodes : \E g \in msgs : PersistGrant(n, g)
    \/ \E n \in Nodes : \E g \in msgs : ReplyGrant(n, g)
    \/ \E n \in Nodes : \E m \in msgs : HandleAppendEntries(n, m)
    \/ \E n \in Nodes : \E t \in Tasks : \E m \in msgs : HandleAppendResponse(n, t, m)
    \/ \E n \in Nodes : \E t \in Tasks : AppendRpcFails(n, t)

Spec == Init /\ [][Next]_vars

\* Elections and clients: two election timers fire, a client proposes one
\* command on either node
InitPropose ==
    InitWith(Cluster, [timeouts |-> <<1, 1, 0>>, beats |-> NoBeats,
                       proposals |-> <<<<1>>, <<2>>, <<>>>>, stops |-> NoStops,
                       links |-> AllLinks])

NextPropose ==
    \/ Next
    \/ \E n \in Nodes : ProposeEntry(n)
    \/ \E n \in Nodes : ProposeSend(n)

SpecPropose == InitPropose /\ [][NextPropose]_vars

\* Leader changes: node 3 times out twice and node 1 once, each is proposed one
\* command, and AppendEntries RPCs get through between nodes 1 and 3 only
InitCommit ==
    InitWith(Cluster, [timeouts |-> <<1, 0, 2>>, beats |-> NoBeats,
                       proposals |-> <<<<1>>, <<>>, <<2>>>>, stops |-> NoStops,
                       links |-> {<<1, 3>>, <<3, 1>>}])

SpecCommit == InitCommit /\ [][NextPropose]_vars

\* Restarts: nodes 1 and 3 are stopped and recreated once each
InitRestart ==
    InitWith(Cluster, [timeouts |-> <<1, 0, 1>>, beats |-> NoBeats,
                       proposals |-> <<<<1>>, <<>>, <<2, 2>>>>, stops |-> <<1, 0, 1>>,
                       links |-> {<<1, 3>>, <<3, 1>>}])

NextRestart ==
    \/ NextPropose
    \/ \E n \in Nodes : ElectionRpcFail(n)
    \/ \E n \in Nodes : Stop(n)
    \/ \E n \in Nodes : Recreate(n)

SpecRestart == InitRestart /\ [][NextRestart]_vars

\* One node without peers (tests/replication.rs, persistence_restart)
Single == [n \in {1} |-> <<>>]

\* The commands its client proposes, in order
Commands == <<1, 2, 3>>

InitSingle ==
    InitWith(Single, [timeouts |-> <<MaxElections, 0, 0>>, beats |-> <<1, 0, 0>>,
                      proposals |-> <<Commands, <<>>, <<>>>>,
                      stops |-> <<MaxStops, 0, 0>>, links |-> {}])

NextSingle ==
    \/ \E n \in Nodes : StartElection(n)
    \/ \E n \in Nodes : ElectionPersist(n)
    \/ \E n \in Nodes : ElectionLeaderSend(n)
    \/ \E n \in Nodes : ProposeEntry(n)
    \/ \E n \in Nodes : ProposeSend(n)
    \/ \E n \in Nodes : Heartbeat(n)
    \/ \E n \in Nodes : Stop(n)
    \/ \E n \in Nodes : Recreate(n)

SpecSingle == InitSingle /\ [][NextSingle]_vars

\* Clients of every node: two election timers fire, a command is proposed on
\* node 1 and on node 2 whatever their role
InitRefuse ==
    InitWith(Cluster, [timeouts |-> <<1, 1, 0>>, beats |-> NoBeats,
                       proposals |-> <<<<1>>, <<2>>, <<>>>>, stops |-> NoStops,
                       links |-> AllLinks])

NextRefuse ==
    \/ NextPropose
    \/ \E n \in Nodes : ProposeRefused(n)

SpecRefuse == InitRefuse /\ [][NextRefuse]_vars

\* Clients: two election timers fire, and a client connects to every node
InitClient ==
    InitWith(Cluster, [timeouts |-> <<1, 1, 0>>, beats |-> NoBeats,
                       proposals |-> NoProposals, stops |-> NoStops,
                       links |-> AllLinks \ {<<2, 3>>}])

NextClient ==
    \/ Next
    \/ \E n \in Nodes : ClientCheck(n)
    \/ \E n \in Nodes : ClientRedirect(n)
    \/ \E n \in Nodes : ClientWork(n)

SpecClient == InitClient /\ [][NextClient]_vars

\* One node without peers whose election timer fires after every start; every
\* task that can run does
InitSingleLive ==
    InitWith(Single, [timeouts |-> <<MaxStops + 1, 0, 0>>, beats |-> <<1, 0, 0>>,
                      proposals |-> <<Commands, <<>>, <<>>>>,
                      stops |-> <<MaxStops, 0, 0>>, links |-> {}])

SpecSingleLive == InitSingleLive /\ [][NextSingle]_vars /\ WF_vars(NextSingle)

\* The replication tests: node 1's election timer fires, two commands are
\* proposed on it, its heartbeat ticks once; every task that can run does
InitLive ==
    InitWith(Cluster, [timeouts |-> <<1, 0, 0>>, beats |-> <<1, 0, 0>>,
                       proposals |-> <<<<1, 2>>, <<>>, <<>>>>, stops |-> NoStops,
                       links |-> AllLinks])

NextLive ==
    \/ NextPropose
    \/ \E n \in Nodes : Heartbeat(n)

SpecLive == InitLive /\ [][NextLive]_vars /\ WF_vars(NextLive)

\* Failover: nodes 1 and 3 time out, each is proposed one command, node 1's
\* process is stopped and stays down; every task that can run does
InitFailover ==
    InitWith(Cluster, [timeouts |-> <<1, 0, 2>>, beats |-> NoBeats,
                       proposals |-> <<<<1>>, <<>>, <<2>>>>, stops |-> <<1, 0, 0>>,
                       links |-> {<<1, 3>>}])

NextFailover ==
    \/ NextPropose
    \/ \E n \in Nodes : ElectionRpcFail(n)
    \/ \E n \in Nodes : Stop(n)

SpecFailover == InitFailover /\ [][NextFailover]_vars /\ WF_vars(NextFailover)

\* Votes: every node's election timer fires once, the AppendEntries RPCs of
\* node 1 get through to both peers; every task that can run does
InitVote ==
    InitWith(Cluster, [timeouts |-> <<1, 1, 1>>, beats |-> NoBeats,
                       proposals |-> NoProposals, stops |-> NoStops,
                       links |-> {<<1, 2>>, <<1, 3>>}])

SpecVote == InitVote /\ [][Next]_vars /\ WF_vars(Next)

\* A silent peer: the election timers of nodes 1 and 2 fire once each, a
\* command is proposed on node 1, whose AppendEntries RPCs get through to node
\* 3 only; every task that can run does
InitSilentPeer ==
    InitWith(Cluster, [timeouts |-> <<1, 1, 0>>, beats |-> NoBeats,
                       proposals |-> <<<<1>>, <<>>, <<>>>>, stops |-> NoStops,
                       links |-> {<<1, 3>>}])

SpecSilentPeer == InitSilentPeer /\ [][NextPropose]_vars /\ WF_vars(NextPropose)

----------------------------------------------------------------------------
\* Properties

\* C1. Election safety: no two running nodes are Leader with the same
\* currentTerm.
ElectionSafety ==
    \A a \in up : \A b \in up :
        (a # b /\ role[a] = "Leader" /\ role[b] = "Leader")
            => currentTerm[a] # currentTerm[b]

\* C2. Log matching: when the logs of two running nodes hold an entry of the
\* same term at an index i, they are equal (term and command) at every index
\* up to i.
LogMatching ==
    \A a \in up : \A b \in up :
        \A i \in 0..(Min(Len(log[a]), Len(log[b])) - 1) :
            At(log[a], i).term = At(log[b], i).term
                => \A j \in 0..i : At(log[a], j) = At(log[b], j)

\* C3. Leader completeness: an entry that a leader of term T committed at
\* index N is at index N of the log of every node that is Leader in a term
\* greater than T.
LeaderCompleteness ==
    \A c \in committed : \A n \in up :
        (role[n] = "Leader" /\ currentTerm[n] > c.term)
            => (c.index < Len(log[n]) /\ At(log[n], c.index) = c.entry)

\* C4. No step of a running node leaves its currentTerm lower than it was
\* before the step.
TermNeverDecreases ==
    [][\A n \in up \cap up' : currentTerm'[n] >= currentTerm[n]]_vars

\* a is a prefix of b
IsPrefix(a, b) == Len(a) <= Len(b) /\ SubSeq(b, 1, Len(a)) = a

\* No task of n is between two of its steps
Quiescent(n) ==
    /\ \A t \in Tasks : task[n][t].pc = "idle"
    /\ mutex[n] = "free"
    /\ ~\E g \in msgs : g.type \in {"RVG", "RVW"} /\ g.from = n

\* C5. Monotonic persistence: a node recreated after a stop starts with a
\* currentTerm not lower than the one it held before the stop, and with a
\* log that extends the log it held before the stop.  Stated for the stops
\* that find no task of the node between two steps.
MonotonicPersistence ==
    [][\A n \in up' \ up :
            Quiescent(n) =>
                /\ currentTerm'[n] >= currentTerm[n]
                /\ IsPrefix(log[n], log'[n])]_vars

\* C6. On every running node commitIndex <= lastLogIndex.
CommitWithinLog == \A n \in up : commitIndex[n] <= LastLogIndex(n)

\* currentTerm, votedFor and the log of n are what the durable store holds
Durable(n) ==
    \/ disk[n] = PersistentState(n)
    \/ disk[n] = NoFile /\ currentTerm[n] = 0 /\ votedFor[n] = None /\ log[n] = NewLog

\* C7. Persist-before-advertise: whenever a node sends an RPC request or
\* response, its currentTerm, votedFor and log are in the durable store.
PersistBeforeAdvertise ==
    [][\A m \in msgs' \ msgs :
            m.type \in {"RV", "RVR", "AE", "AER"} => Durable(m.from)']_vars

\* propose_entry has returned on n for the entry at index i of its log
Returned(n, i) ==
    /\ n \in up
    /\ role[n] = "Leader"
    /\ i < Len(log[n])
    /\ i < LastLogIndex(n) \/ task[n].prop.pc = "idle"

\* Every peer of n holds at index i the command that n holds there
Replicated(n, i) ==
    /\ i < Len(log[n])
    /\ \A p \in PeerSet(n) :
          i < Len(log[p]) /\ At(log[p], i).command = At(log[n], i).command

\* C8. Replication: once propose_entry has returned on a leader for a
\* command, and the node stays Leader, eventually every other node's log
\* holds the command at the same index.
Replication ==
    \A n \in Server : \A i \in 1..2 :
        Returned(n, i) ~> (Replicated(n, i) \/ role[n] # "Leader")

\* C9. Election and commit: the node that starts an election among Followers
\* becomes Leader; after two entries are proposed on it, eventually both
\* followers hold both entries and the leader's commitIndex is at least the
\* index of the first.
ElectionAndCommit ==
    \A n \in Server :
        /\ (role[n] = "Candidate") ~> (role[n] = "Leader")
        /\ Returned(n, 2) ~>
              (Replicated(n, 1) /\ Replicated(n, 2) /\ commitIndex[n] >= 1)

\* The commands whose propose_entry call n's client has made
Proposed(n) == SubSeq(Commands, 1, Len(Commands) - Len(budget.proposals[n]))

\* The log of a leader of term t that was proposed the commands cs
LogOf(t, cs) == <<Sentinel>> \o [i \in 1..Len(cs) |-> [term |-> t, command |-> cs[i]]]

\* C10. Persistence round-trip: a single node stopped after start_election
\* and propose_entry calls that have returned, and recreated, has the log,
\* currentTerm and votedFor it had before; after its first run these are the
\* sentinel followed by the proposed commands in order, 1 and the node itself.
PersistenceRoundTrip ==
    [][\A n \in up' \ up :
            (Quiescent(n) /\ currentTerm[n] >= 1) =>
                /\ log'[n] = log[n]
                /\ currentTerm'[n] = currentTerm[n]
                /\ votedFor'[n] = votedFor[n]
                /\ budget.stops[n] = MaxStops - 1 =>
                      /\ log'[n] = LogOf(1, Proposed(n))
                      /\ currentTerm'[n] = 1
                      /\ votedFor'[n] = n]_vars

\* A node recreated after its first run, in which every command was proposed
RecreatedWithAllCommands ==
    \E n \in up :
        /\ budget.stops[n] = MaxStops - 1
        /\ role[n] = "Follower"
        /\ currentTerm[n] = 1
        /\ log[n] = LogOf(1, Commands)

\* The process of n stopped while n was Leader with an entry committed
LeaderStoppedAfterCommit(n) ==
    /\ n \in Nodes \ up
    /\ role[n] = "Leader"
    /\ commitIndex[n] >= 1

\* A running node is Leader in a term above that of n and holds the entries
\* that n committed
SurvivorLeads(n) ==
    \E s \in up :
        /\ role[s] = "Leader"
        /\ currentTerm[s] > currentTerm[n]
        /\ \A i \in 1..Min(commitIndex[n], LastLogIndex(n)) :
              i < Len(log[s]) /\ At(log[s], i) = At(log[n], i)

\* C11. Leader failover: when the leader stops after it committed an entry,
\* eventually a surviving node is Leader in a strictly higher term with the
\* committed entry at its index.
LeaderFailover ==
    \A n \in Server : LeaderStoppedAfterCommit(n) ~> SurvivorLeads(n)

\* n runs with no persisted state and has not started an election
StartedFresh(n) ==
    /\ n \in up
    /\ disk[n] = NoFile
    /\ role[n] = "Follower" /\ currentTerm[n] = 0

\* n won its first election
WonFirstElection(n) ==
    /\ n \in up
    /\ role[n] = "Leader" /\ currentTerm[n] = 1 /\ votedFor[n] = n

\* C12. Single-node election: a node without peers that runs with no
\* persisted state eventually, unless its process is stopped, is Leader with
\* currentTerm 1 and votedFor itself.
SingleNodeElection ==
    \A n \in DOMAIN Single :
        StartedFresh(n) ~> (WonFirstElection(n) \/ n \notin up)

\* The node won its first election in its first run
WonInFirstRun ==
    \E n \in DOMAIN Single : WonFirstElection(n) /\ budget.stops[n] = MaxStops

\* The Raft state of n is the same before and after the step
RaftStateUnchanged(n) ==
    /\ currentTerm'[n] = currentTerm[n] /\ votedFor'[n] = votedFor[n]
    /\ role'[n] = role[n] /\ leaderId'[n] = leaderId[n]
    /\ log'[n] = log[n] /\ commitIndex'[n] = commitIndex[n]
    /\ nextIndex'[n] = nextIndex[n] /\ matchIndex'[n] = matchIndex[n]

\* C13. Leader-gated dispatch: a client connection that finds the node not
\* Leader is answered with NOT_LEADER:<leaderId> when the leaderId is known
\* and NO_LEADER otherwise; its request is not read, the work function is not
\* run and the Raft state is not changed.
LeaderGatedDispatch ==
    [][\A n \in Server :
          /\ (task[n].cli.pc = "idle" /\ task'[n].cli.pc # "idle" /\ role[n] # "Leader")
                => (task'[n].cli.pc = "redirect" /\ RaftStateUnchanged(n))
          /\ (task[n].cli.pc = "redirect" /\ task'[n].cli.pc # "redirect")
                => /\ task'[n].cli.pc = "done"
                   /\ task'[n].cli.reply =
                          (IF leaderId[n] = None THEN <<"NO_LEADER">>
                           ELSE <<"NOT_LEADER:", leaderId[n]>>)
                   /\ ~task'[n].cli.read /\ ~task'[n].cli.worked
                   /\ RaftStateUnchanged(n)]_vars

\* A Follower that knows its leader has answered a client
RedirectedToLeader ==
    \E n \in up :
        /\ role[n] = "Follower" /\ leaderId[n] \notin {None, n}
        /\ task[n].cli.pc = "done"
        /\ task[n].cli.reply = <<"NOT_LEADER:", leaderId[n]>>

\* C14. propose_entry called on a node that is not Leader returns an error,
\* leaves the node's log, matchIndex, nextIndex, commitIndex and persisted
\* file as they were, and sends no AppendEntries.
ProposeOnNonLeader ==
    [][\A n \in up :
          (budget'.proposals[n] # budget.proposals[n] /\ role[n] # "Leader")
              => /\ task'[n].prop.pc = "idle" /\ task'[n].prop.err
                 /\ log'[n] = log[n] /\ commitIndex'[n] = commitIndex[n]
                 /\ matchIndex'[n] = matchIndex[n] /\ nextIndex'[n] = nextIndex[n]
                 /\ disk'[n] = disk[n]
                 /\ \A m \in msgs' \ msgs : ~(m.type = "AE" /\ m.from = n)]_vars

\* propose_entry returned Err on a node that is not Leader
RefusedOnNonLeader ==
    \E n \in up :
        /\ role[n] # "Leader"
        /\ task[n].prop.err
        /\ budget.proposals[n] = <<>>

\* The step processes an AppendEntriesResponse that p sent to n with the
\* given success
ResponseProcessed(n, p, success) ==
    \E m \in msgs \ msgs' :
        m.type = "AER" /\ m.to = n /\ m.from = p /\ m.success = success

\* C15. Monotonic leader pointers: while a node remains Leader in one term,
\* matchIndex[p] never decreases, nextIndex[p] is raised only by a step that
\* processes a success=true AppendEntriesResponse from p, and is lowered only
\* by a step that processes a success=false AppendEntriesResponse from p.
MonotonicLeaderPointers ==
    [][\A n \in up \cap up' : \A p \in PeerSet(n) :
          (role[n] = "Leader" /\ role'[n] = "Leader"
                /\ currentTerm'[n] = currentTerm[n])
              => /\ matchIndex'[n][p] >= matchIndex[n][p]
                 /\ nextIndex'[n][p] > nextIndex[n][p] => ResponseProcessed(n, p, TRUE)
                 /\ nextIndex'[n][p] < nextIndex[n][p] => ResponseProcessed(n, p, FALSE)]_vars

\* A leader has raised matchIndex for one peer and backed nextIndex off below
\* the end of its log for a peer
LeaderPointersMoved ==
    \E n \in up :
        /\ role[n] = "Leader"
        /\ \E p \in PeerSet(n) : matchIndex[n][p] >= 1
        /\ \E p \in PeerSet(n) : nextIndex[n][p] # Absent /\ nextIndex[n][p] <= LastLogIndex(n)

\* The step appends to n's log the entry that propose_entry makes of the next
\* command of n's client
AppendsProposal(n) ==
    /\ budget.proposals[n] # <<>>
    /\ budget'.proposals[n] = Tail(budget.proposals[n])
    /\ log'[n] = Append(log[n], [term |-> currentTerm[n],
                                 command |-> Head(budget.proposals[n])])

ReadsResponse(n, m) ==
    /\ m \in msgs \ msgs'
    /\ m.type = "AER" /\ m.to = n
    /\ task[n][m.task].pc = "round"
    /\ m.from = Awaited(n, m.task)
    /\ m.term <= task[n][m.task].term
    /\ task'[n][m.task] = AfterResult(n, m.task)

\* C17. After the leader processes a success=true AppendEntriesResponse of
\* follower p to a request with prevLogIndex and entries,
\* matchIndex[p] >= prevLogIndex + len(entries).
MatchCoversAcknowledged ==
    [][\A n \in up \cap up' : \A m \in msgs :
          (ReadsResponse(n, m) /\ m.success)
              => matchIndex'[n][m.from] >= m.prev_idx + m.entries_len]_vars

\* A leader holds for a peer a matchIndex that a success response raised to
\* the prevLogIndex of a request sent after the first entry
AcknowledgedPastFirstEntry ==
    \E n \in up : \E p \in PeerSet(n) :
        /\ role[n] = "Leader"
        /\ matchIndex[n][p] >= 1
        /\ nextIndex[n][p] >= 2

\* C18. In every reachable state the log of every node, and the log of every
\* state file, is non-empty and its entry at index 0 has term 0: the conflict
\* truncation of the AppendEntries handler never removes index 0.
SentinelKept ==
    \A n \in Nodes :
        /\ Len(log[n]) >= 1
        /\ At(log[n], 0).term = 0
        /\ disk[n].file = "present" =>
               Len(disk[n].log) >= 1 /\ At(disk[n].log, 0).term = 0

\* a running node whose log is shorter than the log of its state file, or
\* differs from it at index 1: the handler has truncated at a conflict
ConflictTruncated ==
    \E n \in up :
        /\ disk[n].file = "present"
        /\ Len(disk[n].log) >= 2 /\ Len(log[n]) >= 2
        /\ At(disk[n].log, 1).term # At(log[n], 1).term

\* C19. Lock discipline: at every await of a disk write or an RPC, that is
\* between any two steps, no task of a running node holds its RaftState mutex.
LockDiscipline == \A n \in up : mutex[n] = "free"

\* C20. No self-deadlock: a task that holds the RaftState mutex of a node
\* eventually releases it, so the handler of an accepted AppendEntries with
\* entries completes and later acquisitions of the mutex on that node succeed.
NoSelfDeadlock == \A n \in Server : (mutex[n] # "free") ~> (mutex[n] = "free")

\* the vote of n in term T is for c
VoteIs(n, T, c) == currentTerm[n] = T /\ votedFor[n] = c

\* C21. One vote per term: once the vote of a node in a term T is for a
\* candidate c (its own vote of start_election, or a grant of the RequestVote
\* handler), its vote in term T is never for another candidate, also after
\* votedFor was cleared by a step-down on a response.
OneVotePerTerm ==
    \A n \in Server : \A T \in 1..MaxTerm : \A c \in Server :
        [](VoteIs(n, T, c) => [](\A d \in Server \ {c} : ~VoteIs(n, T, d)))

\* the votes the election task of n has counted once the step is taken
TallyAfter(n) ==
    task[n].elec.votes +
        (IF \E m \in msgs \ msgs' : m.type = "RVR" /\ m.to = n /\ m.granted
         THEN 1 ELSE 0)

\* C22. A node becomes Leader with currentTerm T only in a step of the
\* election it started for term T, while it is still a Candidate in term T,
\* and with the votes of a majority of the cluster (its own included) counted;
\* a candidate that became Follower or adopted a higher term while it waited
\* for vote responses does not become Leader from that election.
LeaderOnlyFromOwnElection ==
    [][\A n \in up \cap up' :
          (role[n] # "Leader" /\ role'[n] = "Leader")
              => /\ role[n] = "Candidate"
                 /\ task[n].elec.pc \in {"persist", "wait"}
                 /\ currentTerm[n] = task[n].elec.term
                 /\ currentTerm'[n] = currentTerm[n]
                 /\ TallyAfter(n) >= Majority(n)]_vars

\* the nodes whose log holds at index N the entry the log of n holds there
HoldersOf(n, N) ==
    {p \in Nodes : N < Len(log'[p]) /\ N < Len(log'[n])
                    /\ At(log'[p], N) = At(log'[n], N)}

\* the log of p equals the log of n on every index up to m
SameUpTo(n, p, m) ==
    \A i \in 0..m : /\ i < Len(log'[n]) /\ i < Len(log'[p])
                     /\ At(log'[p], i) = At(log'[n], i)

\* C23. Whenever a leader sets commitIndex to N, a majority of the nodes of
\* the cluster (the leader included) hold at index N the entry of the
\* leader's log; and a leader records matchIndex[p] = m only if the log of p
\* equals its own log on every index up to m.
CommitOnMajority ==
    [][\A n \in up \cap up' :
          (role[n] = "Leader" /\ role'[n] = "Leader") =>
              /\ commitIndex'[n] > commitIndex[n] =>
                     Cardinality(HoldersOf(n, commitIndex'[n])) >= Majority(n)
              /\ \A p \in PeerSet(n) :
                     (matchIndex'[n][p] # matchIndex[n][p] /\ matchIndex'[n][p] # Absent)
                         => SameUpTo(n, p, matchIndex'[n][p])]_vars

\* C24. State-machine safety: two running nodes hold the same entry at every
\* index that is at most the commitIndex of both, also when one of them was
\* recreated by RaftNode::new from its state file.
StateMachineSafety ==
    \A a \in up : \A b \in up :
        \A i \in 0..Min(commitIndex[a], commitIndex[b]) :
            /\ i < Len(log[a]) /\ i < Len(log[b])
            /\ At(log[a], i) = At(log[b], i)

\* C25. Conflict back-off: when a leader processes the success=false response
\* of follower p to a request that p rejected at the log match check,
\* nextIndex[p] becomes min(nextIndex[p], max(lastLogIndex + 1, 1)), is at
\* least 1, and is lowered so that the retry has a prevLogIndex smaller than
\* the rejected request's.
ConflictBackOff ==
    [][\A n \in up \cap up' : \A m \in msgs :
          (ReadsResponse(n, m) /\ ~m.success /\ role[n] = "Leader")
              => /\ nextIndex'[n][m.from] =
                        Min(GetOr(nextIndex[n], m.from, 1),
                            Max(m.last_log_index + 1, 1))
                 /\ nextIndex'[n][m.from] >= 1
                 /\ nextIndex'[n][m.from] - 1 < m.prev_idx]_vars

\* C26. Log convergence: if a node stays Leader and its AppendEntries RPCs to
\* a running follower p get through, the log of p eventually equals the
\* leader's log and stays equal to it.
LogConvergence ==
    \A n \in Server : \A p \in Server \ {n} :
        <>[](role[n] = "Leader" /\ n \in up /\ p \in up /\ <<n, p>> \in budget.links)
            => <>[](log[p] = log[n])

\* The step is the handler of n taking the RequestVote m
HandlesRequestVote(n, m) ==
    /\ m \in msgs \ msgs'
    /\ m.type = "RV" /\ m.to = n
    /\ \E x \in msgs' \ msgs : x.type \in {"RVG", "RVR"} /\ x.from = n

\* What the RequestVote receiver is to decide on the request m: the term and
\* the vote it has once a higher request term is adopted, and the grant
VoteDecision(n, m) ==
    LET T == IF m.term > currentTerm[n] THEN m.term ELSE currentTerm[n]
        V == IF m.term > currentTerm[n] THEN None ELSE votedFor[n]
        own_term == At(log[n], Len(log[n]) - 1).term
        own_index == Len(log[n]) - 1
        grant == /\ m.term >= T
                 /\ V = None \/ V = m.from
                 /\ \/ m.llt > own_term
                    \/ m.llt = own_term /\ m.lli >= own_index
    IN /\ currentTerm'[n] = T
       /\ grant => /\ votedFor'[n] = m.from
                   /\ \E g \in msgs' \ msgs :
                          g.type = "RVG" /\ g.from = n /\ g.to = m.from
                   /\ ~\E r \in msgs' \ msgs : r.type = "RVR"
       /\ ~grant => /\ votedFor'[n] = V
                    /\ \E r \in msgs' \ msgs :
                           /\ r.type = "RVR" /\ r.from = n /\ r.to = m.from
                           /\ ~r.granted /\ r.term = T
                    /\ ~\E g \in msgs' \ msgs : g.type = "RVG"

\* the replies with voteGranted=true that the step sends
GrantReplies == {r \in msgs' \ msgs : r.type = "RVR" /\ r.granted}

HandlesAppendEntries(n, m) ==
    /\ m \in msgs \ msgs'
    /\ m.type = "AE" /\ m.to = n
    /\ \/ \E x \in msgs' \ msgs : x.type = "AER" /\ x.from = n
       \/ mutex[n] = "free" /\ mutex'[n] = "handler"

\* C28. Higher-term request: a node in any role that handles a RequestVote
\* or an AppendEntries of a term above its currentTerm takes that term and
\* becomes Follower, and the request is evaluated with votedFor and leaderId
\* cleared: a RequestVote is granted on the log comparison alone and leaves
\* leaderId absent, an AppendEntries leaves votedFor absent and sets leaderId
\* to its sender.
HigherTermRequest ==
    [][\A n \in up \cap up' : \A m \in msgs :
          /\ (HandlesRequestVote(n, m) /\ m.term > currentTerm[n]) =>
                 /\ currentTerm'[n] = m.term
                 /\ role'[n] = "Follower"
                 /\ leaderId'[n] = None
                 /\ votedFor'[n] =
                        (IF \/ m.llt > At(log[n], Len(log[n]) - 1).term
                            \/ /\ m.llt = At(log[n], Len(log[n]) - 1).term
                               /\ m.lli >= Len(log[n]) - 1
                         THEN m.from ELSE None)
          /\ (HandlesAppendEntries(n, m) /\ m.term > currentTerm[n]) =>
                 /\ currentTerm'[n] = m.term
                 /\ role'[n] = "Follower"
                 /\ leaderId'[n] = m.from
                 /\ votedFor'[n] = None]_vars

\* a node that was Leader has given its vote to another node, and a node
\* that had voted for itself follows the leader of a later term
SteppedDownOnRequest ==
    /\ \E n \in up : /\ nextIndex[n] # EmptyMap /\ role[n] = "Follower"
                       /\ votedFor[n] \notin {None, n} /\ leaderId[n] = None
    /\ \E n \in up : /\ role[n] = "Follower" /\ votedFor[n] = None
                       /\ leaderId[n] \notin {None, n}
                       /\ disk[n].file = "present" /\ disk[n].voted_for = n

\* the step leaves the RaftState of n, its mutex and its state file as they are
NodeUntouched(n) ==
    /\ role'[n] = role[n] /\ currentTerm'[n] = currentTerm[n]
    /\ votedFor'[n] = votedFor[n] /\ leaderId'[n] = leaderId[n]
    /\ log'[n] = log[n] /\ commitIndex'[n] = commitIndex[n]
    /\ mutex'[n] = mutex[n] /\ disk'[n] = disk[n]

LogMatchFails(n, m) ==
    \/ m.prev_log_index >= Len(log[n])
    \/ At(log[n], m.prev_log_index).term # m.prev_log_term

ConflictsWith(n, m) ==
    {k \in 1..Len(m.entries) :
        /\ m.prev_log_index + k < Len(log[n])
        /\ At(log[n], m.prev_log_index + k).term # m.entries[k].term}

\* C31. Follower merge: after an accepted AppendEntries(prevLogIndex,
\* entries) the log holds entries[k] at prevLogIndex + 1 + k for every k, the
\* entries up to prevLogIndex are unchanged, the entries beyond the delivered
\* range are kept unless a term conflict was found, in which case the log
\* ends with the delivered entries, and handling the same request again
\* leaves the log unchanged.
FollowerMerge ==
    [][\A n \in up \cap up' : \A m \in msgs :
          (HandlesAppendEntries(n, m) /\ m.term >= currentTerm[n] /\ ~LogMatchFails(n, m))
              => /\ \A k \in 1..Len(m.entries) :
                        /\ m.prev_log_index + k < Len(log'[n])
                        /\ At(log'[n], m.prev_log_index + k) = m.entries[k]
                 /\ \A i \in 0..m.prev_log_index : At(log'[n], i) = At(log[n], i)
                 /\ ConflictsWith(n, m) = {} => IsPrefix(log[n], log'[n])
                 /\ ConflictsWith(n, m) # {} =>
                        Len(log'[n]) = m.prev_log_index + Len(m.entries) + 1
                 /\ Merge(log'[n], m.prev_log_index + 1, m.entries) = log'[n]]_vars

\* C32. Leader commit rule: a round of send_append_entries sets commitIndex
\* to N only if N is above the old commitIndex and at most lastLogIndex, at
\* least floor(nodes / 2) + 1 of the matchIndex values (the node's own
\* included) are at least N, and log[N].term is currentTerm: an entry of an
\* earlier term is never committed by counting replicas.
LeaderCommitRule ==
    [][\A n \in up \cap up' : \A m \in msgs :
          (ReadsResponse(n, m) /\ commitIndex'[n] # commitIndex[n])
              => /\ commitIndex'[n] > commitIndex[n]
                 /\ commitIndex'[n] <= Len(log[n]) - 1
                 /\ Cardinality({p \in Server :
                        /\ matchIndex'[n][p] # Absent
                        /\ matchIndex'[n][p] >= commitIndex'[n]})
                      >= ((Len(peers[n]) + 1) \div 2) + 1
                 /\ At(log[n], commitIndex'[n]).term = currentTerm[n]]_vars

\* a Leader has committed the entry at its commitIndex in its own term
CommittedInOwnTerm ==
    \E n \in up : /\ role[n] = "Leader" /\ commitIndex[n] >= 1
                   /\ \E c \in committed :
                          c.term = currentTerm[n] /\ c.index = commitIndex[n]

\* C33. Follower commit rule: an accepted AppendEntries with leaderCommit
\* above commitIndex sets commitIndex to min(leaderCommit, prevLogIndex +
\* len(entries)); with leaderCommit at most commitIndex, or when the request
\* is rejected, commitIndex is unchanged.
FollowerCommitRule ==
    [][\A n \in up \cap up' : \A m \in msgs :
          HandlesAppendEntries(n, m) =>
              commitIndex'[n] =
                  (IF /\ m.term >= currentTerm[n] /\ ~LogMatchFails(n, m)
                      /\ m.leader_commit > commitIndex[n]
                   THEN Min(m.leader_commit, m.prev_log_index + Len(m.entries))
                   ELSE commitIndex[n])]_vars

\* a Follower of this process life (it was Leader in it, and as Leader it
\* never saw a peer hold index 1, so its own commit loop never passed 0) has
\* a commitIndex that the leaderCommit of a request raised
FollowerCommitted ==
    \E n \in up : /\ role[n] = "Follower" /\ nextIndex[n] # EmptyMap
                   /\ \A p \in PeerSet(n) : matchIndex[n][p] = 0
                   /\ commitIndex[n] >= 1

\* A backlog: ten commands proposed on one node
Backlog == [i \in 1..10 |-> 1]

\* Node 1 alone: its election timer fires, the ten commands are proposed on it
\* while none of its AppendEntries RPCs gets through, and its process is
\* stopped; node 3's election timer fires once
InitLeaderAlone ==
    InitWith(Cluster, [timeouts |-> <<1, 0, 1>>, beats |-> NoBeats,
                       proposals |-> <<Backlog, <<>>, <<>>>>, stops |-> <<1, 0, 0>>,
                       links |-> {}])

SpecLeaderAlone == InitLeaderAlone /\ [][NextRestart]_vars

\* The state SpecLeaderAlone ends in when node 1 won term 1 by node 2's vote,
\* node 3's election of term 1 failed, node 1 stored the ten commands
\* (propose_entry persists each) and its process has ended
BacklogStored ==
    /\ peers = Cluster
    /\ up = {2, 3}
    /\ currentTerm = <<1, 1, 1>>
    /\ votedFor = <<1, 1, 3>>
    /\ role = <<"Leader", "Follower", "Follower">>
    /\ leaderId = <<1, None, None>>
    /\ log = <<LogOf(1, Backlog), NewLog, NewLog>>
    /\ commitIndex = <<0, 0, 0>>
    /\ nextIndex = <<[EmptyMap EXCEPT ![2] = 1, ![3] = 1], EmptyMap, EmptyMap>>
    /\ matchIndex = <<[EmptyMap EXCEPT ![1] = 10, ![2] = 0, ![3] = 0], EmptyMap, EmptyMap>>
    /\ mutex = [n \in Server |-> "free"]
    /\ disk = <<[file |-> "present", current_term |-> 1, voted_for |-> 1,
                 log |-> LogOf(1, Backlog)],
                [file |-> "present", current_term |-> 1, voted_for |-> 1, log |-> NewLog],
                [file |-> "present", current_term |-> 1, voted_for |-> 3, log |-> NewLog]>>
    /\ msgs = {}
    /\ task = [n \in Server |-> IdleTasks]
    /\ committed = {}

\* Backlogs: the cluster goes on from BacklogStored with the link from node 1
\* to node 3 restored.  Node 1 is started again and its election timer fires
\* once, as does node 3's; a command is proposed on node 1 and nine on node 3,
\* and node 3's process is stopped and recreated once
InitBacklog ==
    /\ BacklogStored
    /\ budget = [timeouts |-> <<1, 0, 1>>, beats |-> NoBeats,
                 proposals |-> <<<<1>>, <<>>, SubSeq(Backlog, 1, 9)>>,
                 stops |-> <<0, 0, 1>>, links |-> {<<1, 3>>}]

SpecBacklog == InitBacklog /\ [][NextRestart]_vars

\* C34. For every node, commitIndex never decreases during the life of the
\* process: no step of a running node, the follower commit update of the
\* AppendEntries handler and the leader's commit advance included, leaves
\* commitIndex lower than before.
CommitIndexMonotonic ==
    [][\A n \in up \cap up' : commitIndex'[n] >= commitIndex[n]]_vars

\* The step is the election task of n taking the RequestVoteResponse m
ReadsVoteResponse(n, m) ==
    /\ m \in msgs \ msgs'
    /\ m.type = "RVR" /\ m.to = n
    /\ task[n].elec.pc = "wait" /\ m.from = peers[n][task[n].elec.k]
    /\ task'[n].elec # task[n].elec

\* The step is the round of n's task t taking the AppendEntriesResponse m
ReadsAppendResponse(n, t, m) ==
    /\ m \in msgs \ msgs'
    /\ m.type = "AER" /\ m.task = t /\ m.to = n
    /\ task[n][t].pc = "round" /\ m.from = Awaited(n, t)
    /\ task'[n][t] # task[n][t]

\* n is a Follower of term T without vote and leader, and that is on its disk
SteppedDownTo(n, T) ==
    /\ role'[n] = "Follower"
    /\ currentTerm'[n] = T
    /\ votedFor'[n] = None
    /\ leaderId'[n] = None
    /\ disk'[n].file = "present"
    /\ disk'[n].current_term = T
    /\ disk'[n].voted_for = None

\* C35. Step-down on a higher-term response: when a candidate processes a
\* RequestVoteResponse, or a leader processes an AppendEntriesResponse, whose
\* term is greater than its currentTerm, it becomes Follower with currentTerm
\* equal to the response term, votedFor cleared and leaderId cleared, persists
\* that state, and processes no further responses of that round.
StepDownOnResponse ==
    [][\A n \in up \cap up' : \A m \in msgs :
          /\ (ReadsVoteResponse(n, m) /\ role[n] = "Candidate"
                 /\ m.term > currentTerm[n])
                => SteppedDownTo(n, m.term) /\ task'[n].elec = Idle
          /\ \A t \in Tasks :
                (ReadsAppendResponse(n, t, m) /\ role[n] = "Leader"
                   /\ m.term > currentTerm[n])
                  => SteppedDownTo(n, m.term) /\ task'[n][t] = Idle]_vars

\* C36. AppendEntries responses affect leader state only while the node is
\* still Leader in the term in which the request was sent: a response
\* processed after the node stepped down or after its term changed does not
\* modify matchIndex, nextIndex or commitIndex.
ResponsesOnlyWhileLeader ==
    [][\A n \in up \cap up' : \A t \in Tasks : \A m \in msgs :
          (ReadsAppendResponse(n, t, m)
             /\ (role[n] # "Leader" \/ currentTerm[n] # task[n][t].term))
            => /\ matchIndex'[n] = matchIndex[n]
               /\ nextIndex'[n] = nextIndex[n]
               /\ commitIndex'[n] = commitIndex[n]]_vars

\* C37. On a Leader, for every peer p in every reachable state,
\* 1 <= nextIndex[p] <= lastLogIndex + 1 and matchIndex[p] <= lastLogIndex, so
\* the prevLogIndex of every AppendEntries it sends refers to an entry that
\* exists in the leader's log.
LeaderIndexBounds ==
    \A n \in up : role[n] = "Leader" =>
        \A p \in PeerSet(n) :
            /\ nextIndex[n][p] >= 1
            /\ nextIndex[n][p] <= LastLogIndex(n) + 1
            /\ matchIndex[n][p] <= LastLogIndex(n)
            /\ AppendEntriesMsg(n, p, "beat", currentTerm[n],
                                commitIndex[n]).prev_log_index <= LastLogIndex(n)

ElectionUnderWay(n) == n \in up /\ task[n].elec.pc \in {"persist", "wait"}

\* C39. Every election attempt terminates: after start_election begins, the
\* node eventually either becomes Leader or returns to Follower, even when a
\* peer accepts the connection but never answers the RequestVote.
ElectionTerminates ==
    \A n \in Server :
        ElectionUnderWay(n) ~>
            (~ElectionUnderWay(n) /\ (n \in up => role[n] \in {"Leader", "Follower"}))

\* C40. A node never sends a client the redirect NOT_LEADER:<id> where <id>
\* is its own serverId, under any interleaving of the dispatcher's separate
\* is_leader() and get_leader_id() calls with the node's role changes.
NoRedirectToSelf ==
    \A n \in Nodes : task[n].cli.reply # <<"NOT_LEADER:", n>>

====
